---------------------------- MODULE Spec2Model ----------------------------
(***************************************************************************)
(* Poisson-disk sampling by hierarchical grid refinement (ctbur/poisson).  *)
(*                                                                         *)
(* Numbers.  The program computes with f64 positions.  Here every length   *)
(* is an integer number of lattice steps: one top-level grid cell is Cell  *)
(* steps wide, the unit hypercube is `unit' steps wide, and a dart lands   *)
(* on a lattice point of its candidate cell.  Grid::new derives            *)
(* cell = 2*radius/sqrt(dim), so (2*radius)^2 = dim * cell^2, which is the *)
(* only form in which the radius is ever used (sqradius).  Choosing `unit' *)
(* is choosing the radius: 1/cell = unit/Cell.                             *)
(*                                                                         *)
(* Rounding.  The lattice arithmetic is exact, f64 is not.  The two agree  *)
(* wherever the exact values compared differ.  Where they are equal, the   *)
(* f64 values lie on either side of each other, depending on the operands: *)
(*   - sqdist(a, b) < sqradius with the exact squared distance equal to    *)
(*     (2*radius)^2 comes out either way, each pair of operands on its     *)
(*     own: every operator that makes this comparison takes as its last    *)
(*     argument `lt' the set of the pairs <<a, b>> for which it comes out  *)
(*     true, and the actions draw that set from the pairs at a tie;        *)
(*   - (1. / cell) as usize with 1/cell an exact integer k: the f64        *)
(*     quotient is k or just below it, so side is k or k - 1 (SideDraws).  *)
(***************************************************************************)
EXTENDS Integers, Sequences, FiniteSets, TLC

VARIABLES
    dim,          \* V::dim(None): the dimension of the vector type
    unit,         \* the length 1.0 in lattice steps (fixes the radius)
    grid_side,    \* Grid.side
    periodicity,  \* PoissonGen.periodicity
    points,       \* the caller's Vec<Sample<V>> handed to generate
    seeds,        \* Len(points) when generate was entered
    grid,         \* Grid.data: flat index -> Option<V>
    indices,      \* the candidate list of generate
    level,        \* generate's level counter
    range,        \* throw_samples' Range::new(0, n): the n
    throws,       \* iterations left of throw_samples' for loop
    accepted,     \* number of darts stored so far (history)
    pc,           \* generate: "loop" | "throw" | "done"; a function call: its phase
    arg,          \* the arguments of a call of encode, get_parent, sample_to_index
    res           \* what the call returned

vars == <<dim, unit, grid_side, periodicity, points, seeds, grid, indices, level,
          range, throws, accepted, pc, arg, res>>

-----------------------------------------------------------------------------
(* Bounds of the model *)

\* Stand-in for f64::MANTISSA_DIGITS (53 in the program): the level at which
\* generate's loop stops refining.
LevelBound == 2

\* A dart's offset inside its cell, per axis, is place/PlaceDen of the cell.
PlaceDen == 8

\* The places explored per axis: PlaceFirst, PlaceFirst + PlaceStep, ... below
\* PlaceDen
PlaceFirst == 0
PlaceStep == 5

\* The runs in which set_radius is called (SpecSeeded): those in which the
\* grid of the new radius has at most CellBound cells
CellBound == 4

\* The runs on the torus (SpecTorus): the random index is one of the list
\* positions 0..TorusIndexBound, the place per axis one of 1..TorusPlaceBound
TorusIndexBound == 1
TorusPlaceBound == 2

\* Throws explored of the five-dimensional run (SpecHiDim)
HiThrowCap == 3

\* Calls of the coordinate functions: components in -CoordBound..CoordBound,
\* grid sides 1..MaxSide, levels 0..MaxShift; points of [0, 1) as k/SampleDen
CoordBound == 4
MaxSide == 4
MaxShift == 2
SampleDen == 6

\* Calls of each_combination: vector types of dimension 1..CombiDim
CombiDim == 3

\* generate is called again on a collection of at most SeedBound samples
SeedBound == 2

-----------------------------------------------------------------------------
(* Small helpers *)

RECURSIVE Pow(_, _)
Pow(b, e) == IF e = 0 THEN 1 ELSE b * Pow(b, e - 1)

None == <<>>
Some(x) == <<x>>
IsSome(o) == o # <<>>
Unwrap(o) == o[1]

Axes == 1..dim

\* Grid.cell, in lattice steps: wide enough that every cell corner down to
\* level LevelBound and every dart offset is a lattice point.
Cell == Pow(2, LevelBound) * PlaceDen

\* Grid.side
Side == grid_side

\* Grid::new: side = (1. / cell) as usize, for the radius that `u' stands for
SideDraws(u) ==
    {u \div Cell} \cup (IF u % Cell = 0 /\ u >= Cell THEN {u \div Cell - 1} ELSE {})

\* (2. * self.radius).powi(2), with 2*radius = sqrt(dim) * cell
SqRadius == dim * Cell * Cell

-----------------------------------------------------------------------------
(* utils: each_combination, swap_remove *)

\* CombiIter: the k-th vector (k = 0 .. L^d - 1) has component n (0-based)
\* equal to choices[(k div L^n) mod L].
CombiAt(choices, d, k) ==
    [n \in 1..d |-> choices[((k \div Pow(Len(choices), n - 1)) % Len(choices)) + 1]]

each_combination(choices, d) ==
    [k \in 1..Pow(Len(choices), d) |-> CombiAt(choices, d, k - 1)]

\* a slip: the index is not divided between the axes
RECURSIVE CombiFillSame(_, _, _, _)
CombiFillSame(choices, result, n, div) ==
    IF n > Len(result) THEN result
    ELSE LET rem == div % Len(choices)
         IN CombiFillSame(choices, [result EXCEPT ![n] = choices[rem + 1]], n + 1, div)

\* CombiIter::next, the loop over result.iter_mut():
\* rem = div % len; div /= len; *n = choices[rem]
RECURSIVE CombiFill(_, _, _, _)
CombiFill(choices, result, n, div) ==
    IF n > Len(result) THEN result
    ELSE LET rem == div % Len(choices)
         IN CombiFill(choices, [result EXCEPT ![n] = choices[rem + 1]], n + 1,
                      div \div Len(choices))

\* CombiIter::next on an iterator at `cur': the new cur and the item
CombiIterNext(cur, choices, d) ==
    IF cur >= Pow(Len(choices), d)
    THEN [cur |-> cur, item |-> None]
    ELSE [cur |-> cur + 1,
          item |-> Some(CombiFill(choices, [n \in 1..d |-> 0], 1, cur))]

\* Vec::swap_remove(i), i counted from 0
swap_remove(s, i) ==
    LET n == Len(s)
        front == SubSeq(s, 1, n - 1)
    IN IF i = n - 1 THEN front ELSE [front EXCEPT ![i + 1] = s[n]]

VAdd(a, b) == [n \in DOMAIN a |-> a[n] + b[n]]
VSub(a, b) == [n \in DOMAIN a |-> a[n] - b[n]]
VScale(a, k) == [n \in DOMAIN a |-> a[n] * k]

RECURSIVE SumSq(_, _)
SumSq(v, n) == IF n = 0 THEN 0 ELSE v[n] * v[n] + SumSq(v, n - 1)
sqnorm(v) == SumSq(v, Len(v))

-----------------------------------------------------------------------------
(* lib.rs: encode, decode, get_parent *)

\* Rust's % on isize: the remainder truncated toward zero
Rem(a, b) == IF a >= 0 THEN a % b ELSE -((-a) % b)

\* a slip: the remainder instead of the true modulo
modulo_remainder(a, b) == Rem(a, b)

\* modulo::Mod::modulo
modulo(a, b) == Rem(Rem(a, b) + b, b)

RECURSIVE EncodeFrom(_, _, _, _, _)
EncodeFrom(v, side, per, n, index) ==
    IF n > Len(v) THEN Some(index \div side)
    ELSE IF per
         THEN EncodeFrom(v, side, per, n + 1, (index + modulo(v[n], side)) * side)
         ELSE IF v[n] < 0 \/ v[n] >= side
              THEN None
              ELSE EncodeFrom(v, side, per, n + 1, (index + v[n]) * side)

encode(v, side, per) == EncodeFrom(v, side, per, 1, 0)

RECURSIVE DecodeFrom(_, _, _, _)
DecodeFrom(result, side, n, last) ==
    IF n = 0 THEN result
    ELSE LET cur == last \div side
         IN DecodeFrom([result EXCEPT ![n] = last - cur * side], side, n - 1, cur)

\* a slip: the axes are filled first to last, without .rev()
RECURSIVE DecodeFwd(_, _, _, _)
DecodeFwd(result, side, n, last) ==
    IF n > Len(result) THEN result
    ELSE LET cur == last \div side
         IN DecodeFwd([result EXCEPT ![n] = last - cur * side], side, n + 1, cur)

decode_forward(index, side, d) ==
    IF index >= Pow(side, d) THEN None
    ELSE Some(DecodeFwd([n \in 1..d |-> 0], side, 1, index))

decode(index, side, d) ==
    IF index >= Pow(side, d) THEN None
    ELSE Some(DecodeFrom([n \in 1..d |-> 0], side, d, index))

\* a slip: .round() instead of .floor()
get_parent_round(index, lvl, top_lvl_side) ==
    LET split == Pow(2, lvl)
        round(x) == IF x >= 0 THEN (2 * x + split) \div (2 * split)
                    ELSE 0 - ((split - 2 * x) \div (2 * split))
    IN Some([n \in DOMAIN index |-> round(index[n])])

\* get_parent: the early return is commented out in the source, so the
\* result is always Some.
get_parent(index, lvl, top_lvl_side) ==
    Some([n \in DOMAIN index |-> index[n] \div Pow(2, lvl)])

\* utils::get_parent
utils_get_parent(index, lvl) ==
    [n \in DOMAIN index |-> index[n] \div Pow(2, lvl)]

\* utils::sample_to_index and index_to_sample.  A real is a pair <<p, q>>,
\* the fraction p/q with q > 0; F::cast(side) is <<side, 1>>.
RMul(a, b) == <<a[1] * b[1], a[2] * b[2]>>
RDiv(a, b) == <<a[1] * b[2], a[2] * b[1]>>
RFloor(a) == <<a[1] \div a[2], 1>>
REq(a, b) == a[1] * b[2] = b[1] * a[2]

sample_to_index(value, side) ==
    [c \in DOMAIN value |-> RFloor(RMul(value[c], <<side, 1>>))]

index_to_sample(value, side) ==
    [c \in DOMAIN value |-> RDiv(value[c], <<side, 1>>)]

-----------------------------------------------------------------------------
(* Grid *)

GridNew == [t \in 0..(Pow(Side, dim) - 1) |-> None]

GridGetParent(index, lvl) == Unwrap(get_parent(index, lvl, Side))

\* Grid::get: Option<&Option<V>>
GridGet(g, index) ==
    LET t == encode(index, Side, periodicity)
    IN IF IsSome(t) THEN Some(g[Unwrap(t)]) ELSE None

\* *grid.get_mut(index).unwrap() = Some(sample)
GridSet(g, index, sample) ==
    [g EXCEPT ![Unwrap(encode(index, Side, periodicity))] = Some(sample)]

\* the occupied slots in slot order
RECURSIVE Stored(_, _)
Stored(g, t) ==
    IF t < 0 THEN <<>>
    ELSE IF IsSome(g[t]) THEN Append(Stored(g, t - 1), Unwrap(g[t]))
         ELSE Stored(g, t - 1)

\* Sample::new(pos, radius); the radius is kept as (2*radius)^2
Sample(v, sqradius) == [pos |-> v, sqradius |-> sqradius]

\* a slip: the last slot of the grid is left out
into_extended_samples_short(g, samples) ==
    LET s == Stored(g, Pow(Side, dim) - 2)
    IN samples \o [k \in 1..Len(s) |-> Sample(s[k], SqRadius)]

\* samples.extend(self.data.into_iter().filter_map(|v| v).map(|v| Sample::new(v, radius)))
into_extended_samples(g, samples) ==
    LET s == Stored(g, Pow(Side, dim) - 1)
    IN samples \o [k \in 1..Len(s) |-> Sample(s[k], SqRadius)]

-----------------------------------------------------------------------------
(* Distance, disk test, coverage *)

\* The dimensions of the vector types the model is run with
Dims == {1, 2, 5}

\* each_combination over the three fixed offset slices of lib.rs, tabulated
\* per dimension
Images == [d \in Dims |-> each_combination(<<-1, 0, 1>>, d)]
Ring == [d \in Dims |-> each_combination(<<-2, -1, 0, 1, 2>>, d)]
RingSet == [d \in Dims |-> {Ring[d][k] : k \in 1..Len(Ring[d])}]
Corners == [d \in Dims |-> each_combination(<<0, 1>>, d)]

RECURSIVE FoldMin(_, _, _, _)
FoldMin(diff, imgs, k, a) ==
    IF k > Len(imgs) THEN a
    ELSE LET b == sqnorm(VAdd(diff, VScale(imgs[k], unit)))
         IN FoldMin(diff, imgs, k + 1, IF b < a THEN b ELSE a)

\* f64::MAX, the fold's start value: above every squared distance of the model
F64Max == 2147483647

sqdist(v1, v2, per) ==
    LET diff == VSub(v2, v1)
    IN IF per THEN FoldMin(diff, Images[Len(v1)], 1, F64Max)
       ELSE sqnorm(diff)

\* sqdist(a, b) < sqradius as f64 evaluates it, d the exact squared distance:
\* when d equals (2*radius)^2 exactly, it is true for the pairs in lt
Below(d, a, b, lt) == d < SqRadius \/ (d = SqRadius /\ <<a, b>> \in lt)

\* the samples found in the 5^dim ring of cells around `parent':
\* each_combination(&[-2., -1., 0., 1., 2.])
\*     .filter_map(|t| grid.get(parent + t)).filter_map(|t| *t)
RingSamples(g, parent) ==
    UNION { LET o == GridGet(g, VAdd(parent, t))
            IN IF IsSome(o) /\ IsSome(Unwrap(o)) THEN {Unwrap(Unwrap(o))} ELSE {} :
            t \in RingSet[dim] }

is_disk_free(g, index, lvl, c, lt) ==
    LET parent == Unwrap(get_parent(index, lvl, Side))
    IN \A v \in RingSamples(g, parent) : ~Below(sqdist(v, c, periodicity), v, c, lt)

\* the comparisons of is_disk_free that are at a tie
DiskTies(g, index, lvl, c) ==
    LET parent == Unwrap(get_parent(index, lvl, Side))
    IN { <<v, c>> : v \in { w \in RingSamples(g, parent) :
                                sqdist(w, c, periodicity) = SqRadius } }

Spacing(lvl) == Cell \div Pow(2, lvl)

is_cell_covered(v, index, lvl, lt) ==
    LET corners == Corners[dim]
    IN \A k \in 1..Len(corners) :
         LET t == VScale(VAdd(index, corners[k]), Spacing(lvl))
         IN Below(sqdist(t, v, periodicity), t, v, lt)

covered(g, index, lvl, lt) ==
    LET parent == Unwrap(get_parent(index, lvl, Side))
    IN \E v \in RingSamples(g, parent) : is_cell_covered(v, index, lvl, lt)

\* the comparisons of covered that are at a tie and decide is_cell_covered:
\* those with a sample from which no corner of the cell is farther than
\* 2*radius
CellTies(g, index, lvl) ==
    LET parent == Unwrap(get_parent(index, lvl, Side))
        corners == Corners[dim]
        At(k) == VScale(VAdd(index, corners[k]), Spacing(lvl))
    IN UNION { IF \A k \in 1..Len(corners) : sqdist(At(k), v, periodicity) <= SqRadius
               THEN { <<At(k), v>> : k \in { j \in 1..Len(corners) :
                                               sqdist(At(j), v, periodicity) = SqRadius } }
               ELSE {} :
               v \in RingSamples(g, parent) }

\* choose_random_sample: index * spacing + place * spacing per axis, the
\* random place[n] in [0, 1) given as place[n] / PlaceDen
choose_random_sample(index, lvl, place) ==
    [n \in DOMAIN index |->
        index[n] * Spacing(lvl) + (place[n] * Spacing(lvl)) \div PlaceDen]

-----------------------------------------------------------------------------
(* subdivide: Vec::flat_map_inplace *)

\* a slip: the offsets are 1 and 2 instead of 0 and 1
ChildrenShifted(g, i, lvl, lt) ==
    LET cs == Corners[dim]
    IN SelectSeq([k \in 1..Len(cs) |-> VAdd(VAdd(cs[k], [n \in Axes |-> 1]), VScale(i, 2))],
                 LAMBDA c : ~covered(g, c, lvl + 1, lt))

Children(g, i, lvl, lt) ==
    LET cs == Corners[dim]
    IN SelectSeq([k \in 1..Len(cs) |-> VAdd(cs[k], VScale(i, 2))],
                 LAMBDA c : ~covered(g, c, lvl + 1, lt))

\* for i in (0..len).rev() { for t in f(self.swap_remove(i)) { self.push(t) } }
RECURSIVE FlatMapFrom(_, _, _, _, _)
FlatMapFrom(s, i, g, lvl, lt) ==
    IF i < 0 THEN s
    ELSE FlatMapFrom(swap_remove(s, i) \o Children(g, s[i + 1], lvl, lt), i - 1, g, lvl, lt)

\* a slip: the list is walked front to back, without .rev()
RECURSIVE FlatMapForward(_, _, _, _, _, _)
FlatMapForward(s, i, n, g, lvl, lt) ==
    IF i >= n \/ i >= Len(s) THEN s
    ELSE FlatMapForward(swap_remove(s, i) \o Children(g, s[i + 1], lvl, lt), i + 1, n, g, lvl, lt)

subdivide_forward(g, ind, lvl, lt) == FlatMapForward(ind, 0, Len(ind), g, lvl, lt)

subdivide(g, ind, lvl, lt) == FlatMapFrom(ind, Len(ind) - 1, g, lvl, lt)

\* the comparisons at a tie among those one call of subdivide makes
SubdivideTies(g, ind, lvl) ==
    UNION { CellTies(g, VAdd(Corners[dim][k], VScale(ind[j], 2)), lvl + 1) :
              j \in DOMAIN ind, k \in DOMAIN Corners[dim] }

-----------------------------------------------------------------------------
(* generate *)

\* (a * indices.len() as f64).ceil() as usize with a = 0.3
Throws(n) == (3 * n + 9) \div 10

\* The places a dart is drawn from inside its cell: each axis on its own
\* (rand per axis), a numerator over PlaceDen, every PlaceStep-th of them
\* from PlaceFirst on
PlaceDraws == [Axes -> { p \in 0..(PlaceDen - 1) : p % PlaceStep = PlaceFirst }]

\* The runs of generate: the vector type's dimension, the radius, given as
\* the length of 1.0 in lattice steps (side = unit div Cell), and periodicity
ConfigDraws ==
    { <<1, Cell, FALSE>>, <<1, Cell, TRUE>>,
      <<1, 3 * Cell, FALSE>>, <<1, 3 * Cell, TRUE>>,
      <<1, 3 * Cell + Cell \div 2, FALSE>>, <<1, 3 * Cell + Cell \div 2, TRUE>>,
      <<1, 5 * Cell, FALSE>>, <<1, 5 * Cell, TRUE>>,
      <<2, Cell + Cell \div 2, FALSE>>, <<2, Cell + Cell \div 2, TRUE>>,
      <<2, 2 * Cell, TRUE>>, <<2, 2 * Cell + Cell \div 2, TRUE>> }

\* generate, lines 240-246: the grid and the first candidate list
Start(d, u, per, pts) ==
    /\ dim = d
    /\ unit = u
    /\ grid_side \in SideDraws(u)
    /\ periodicity = per
    /\ points = pts
    /\ seeds = Len(pts)
    /\ grid = GridNew
    /\ indices = each_combination([i \in 1..Side |-> i - 1], dim)
    /\ level = 0
    /\ range = 0
    /\ throws = 0
    /\ accepted = 0
    /\ pc = "loop"
    /\ arg = <<>>
    /\ res = <<>>

Init == \E c \in ConfigDraws : Start(c[1], c[2], c[3], <<>>)

\* while !indices.is_empty() && level < MANTISSA_DIGITS: enter throw_samples
LoopEnter ==
    /\ pc = "loop"
    /\ indices # <<>>
    /\ level < LevelBound
    /\ range' = Len(indices)
    /\ throws' = Throws(Len(indices))
    /\ pc' = "throw"
    /\ UNCHANGED <<dim, unit, grid_side, periodicity, points, seeds, grid, indices, level, accepted>>
    /\ UNCHANGED <<arg, res>>

\* the loop condition fails: grid.into_extended_samples(points, radius)
LoopExit ==
    /\ pc = "loop"
    /\ ~(indices # <<>> /\ level < LevelBound)
    /\ points' = into_extended_samples(grid, points)
    /\ pc' = "done"
    /\ UNCHANGED <<dim, unit, grid_side, periodicity, seeds, grid, indices, level, range, throws, accepted>>
    /\ UNCHANGED <<arg, res>>

\* a slip: a candidate whose dart is rejected is removed as well
ThrowDropRejected(index, place, lt) ==
    /\ pc = "throw"
    /\ throws > 0
    /\ LET cur == indices[index + 1]
           parent == GridGetParent(cur, level)
           sample == choose_random_sample(cur, level, place)
           removed == swap_remove(indices, index)
       IN IF IsSome(Unwrap(GridGet(grid, parent)))
          THEN /\ indices' = removed
               /\ UNCHANGED <<grid, accepted>>
          ELSE IF is_disk_free(grid, cur, level, sample, lt)
               THEN /\ grid' = GridSet(grid, parent, sample)
                    /\ indices' = removed
                    /\ accepted' = accepted + 1
               ELSE /\ indices' = removed
                    /\ UNCHANGED <<grid, accepted>>
    /\ IF indices' = <<>>
       THEN /\ pc' = "loop"
            /\ UNCHANGED <<range, throws>>
       ELSE /\ range' = Len(indices')
            /\ throws' = throws - 1
            /\ pc' = "throw"
    /\ UNCHANGED <<dim, unit, grid_side, periodicity, points, seeds, level, arg, res>>

\* one iteration of throw_samples' for loop, with the drawn index and place
Throw(index, place, lt) ==
    /\ pc = "throw"
    /\ throws > 0
    /\ LET cur == indices[index + 1]
           parent == GridGetParent(cur, level)
           sample == choose_random_sample(cur, level, place)
           removed == swap_remove(indices, index)
       IN IF IsSome(Unwrap(GridGet(grid, parent)))
          THEN /\ indices' = removed
               /\ UNCHANGED <<grid, accepted>>
          ELSE IF is_disk_free(grid, cur, level, sample, lt)
               THEN /\ grid' = GridSet(grid, parent, sample)
                    /\ indices' = removed
                    /\ accepted' = accepted + 1
               ELSE UNCHANGED <<grid, indices, accepted>>
    /\ IF indices' = <<>>
       THEN /\ pc' = "loop"            \* return false
            /\ UNCHANGED <<range, throws>>
       ELSE /\ range' = Len(indices')
            /\ throws' = throws - 1
            /\ pc' = "throw"
    /\ UNCHANGED <<dim, unit, grid_side, periodicity, points, seeds, level, arg, res>>

ThrowSamples ==
    /\ pc = "throw"
    /\ \E index \in 0..(range - 1) : \E place \in PlaceDraws :
         \E lt \in SUBSET DiskTies(grid, indices[index + 1], level,
                                   choose_random_sample(indices[index + 1], level, place)) :
             Throw(index, place, lt)

\* a slip: the level is not incremented after subdivide
SubdivideSameLevel ==
    /\ pc = "throw"
    /\ throws = 0
    /\ \E lt \in SUBSET SubdivideTies(grid, indices, level) :
         indices' = subdivide(grid, indices, level, lt)
    /\ pc' = "loop"
    /\ UNCHANGED <<dim, unit, grid_side, periodicity, points, seeds, grid, range, throws, accepted>>
    /\ UNCHANGED <<level, arg, res>>

\* throw_samples returned true: subdivide, level += 1
Subdivide ==
    /\ pc = "throw"
    /\ throws = 0
    /\ \E lt \in SUBSET SubdivideTies(grid, indices, level) :
         indices' = subdivide(grid, indices, level, lt)
    /\ level' = level + 1              \* level += 1
    /\ pc' = "loop"
    /\ UNCHANGED <<dim, unit, grid_side, periodicity, points, seeds, grid, range, throws, accepted>>
    /\ UNCHANGED <<arg, res>>

Next == LoopEnter \/ ThrowSamples \/ Subdivide \/ LoopExit

Spec == Init /\ [][Next]_vars

-----------------------------------------------------------------------------
(* generate called with a collection that already holds samples *)

SeededConfigDraws ==
    { <<1, Cell, FALSE>>, <<1, 3 * Cell, FALSE>>, <<1, 3 * Cell, TRUE>>, <<2, 2 * Cell, TRUE>> }

\* valid sample sets of the run's radius: one sample at the origin, or that
\* one and a second sample 2*radius (1-D) or more away
SeedDraws(d) ==
    LET sq == d * Cell * Cell
        origin == Sample([n \in 1..d |-> 0], sq)
        far == Sample([n \in 1..d |-> Cell], sq)
    IN { <<origin>>, <<origin, far>> }

InitSeeded ==
    \E c \in SeededConfigDraws : \E pts \in SeedDraws(c[1]) : Start(c[1], c[2], c[3], pts)

\* PoissonGen::set_radius between two calls of generate: the radius is
\* halved, which on the lattice doubles the length of 1.0 and with it every
\* position held by the caller (the squared disk diameter of a kept sample
\* is four times as many squared steps)
SetRadius ==
    /\ pc = "done"
    /\ Pow((2 * unit) \div Cell, dim) <= CellBound
    /\ 2 * (2 * unit) * (2 * unit) >= dim * Cell * Cell    \* assert!(radius <= sqrt(2)/2)
    /\ unit' = 2 * unit
    /\ points' = [k \in 1..Len(points) |->
                    Sample(VScale(points[k].pos, 2), 4 * points[k].sqradius)]
    /\ UNCHANGED <<dim, grid_side, periodicity, seeds, grid, indices, level, range, throws,
                   accepted, pc, arg, res>>

\* generate called again on the same generator, with the collection as the
\* caller holds it: lines 240-246
Generate ==
    /\ pc = "done"
    /\ Len(points) <= SeedBound
    /\ grid_side' \in SideDraws(unit)
    /\ grid' = [t \in 0..(Pow(grid_side', dim) - 1) |-> None]
    /\ indices' = each_combination([i \in 1..grid_side' |-> i - 1], dim)
    /\ level' = 0
    /\ seeds' = Len(points)
    /\ accepted' = 0
    /\ range' = 0
    /\ throws' = 0
    /\ pc' = "loop"
    /\ UNCHANGED <<dim, unit, periodicity, points, arg, res>>

NextSeeded == Next \/ SetRadius \/ Generate

SpecSeeded == InitSeeded /\ [][NextSeeded]_vars

-----------------------------------------------------------------------------
(* The first throws of a five-dimensional run.  Every behaviour is the      *)
(* beginning of a run of generate for a 5-vector type with 1/cell = 4: the  *)
(* random index is drawn from the first four list positions only, the place *)
(* varies on the first two axes only, and only the first HiThrowCap throws  *)
(* of the first pass are explored.                                          *)

HiIndexDraws == {0, 3}

HiPlaceDraws == { [n \in 1..5 |-> IF n = 1 THEN a ELSE IF n = 2 THEN b ELSE 0] :
                    a \in {0, 7}, b \in {0, 7} }

InitHiDim == Start(5, 4 * Cell, FALSE, <<>>)

ThrowSamplesHiDim ==
    /\ pc = "throw"
    /\ level = 0
    /\ throws > Throws(Pow(Side, dim)) - HiThrowCap
    /\ \E index \in HiIndexDraws : \E place \in HiPlaceDraws :
         \E lt \in SUBSET DiskTies(grid, indices[index + 1], level,
                                   choose_random_sample(indices[index + 1], level, place)) :
             Throw(index, place, lt)

NextHiDim == LoopEnter \/ ThrowSamplesHiDim

SpecHiDim == InitHiDim /\ [][NextHiDim]_vars

-----------------------------------------------------------------------------
(* Runs on the two-dimensional torus with side 3 (1/cell = 3 + 1/Cell).     *)
(* Every behaviour is a run of generate: the random index is drawn from the *)
(* first list positions and the place, each axis on its own, from the first *)
(* places after the cell's origin.                                          *)

TorusIndexDraws == 0..TorusIndexBound

TorusPlaceDraws == [Axes -> 1..TorusPlaceBound]

InitTorus == Start(2, 3 * Cell + 1, TRUE, <<>>)

ThrowSamplesTorus ==
    /\ pc = "throw"
    /\ \E index \in TorusIndexDraws : \E place \in TorusPlaceDraws :
         /\ index < range
         /\ \E lt \in SUBSET DiskTies(grid, indices[index + 1], level,
                                      choose_random_sample(indices[index + 1], level, place)) :
               Throw(index, place, lt)

NextTorus == LoopEnter \/ ThrowSamplesTorus \/ Subdivide \/ LoopExit

SpecTorus == InitTorus /\ [][NextTorus]_vars

-----------------------------------------------------------------------------
(* Calls of the coordinate functions on their own: the arguments are drawn  *)
(* in the initial state, each action is one call.                           *)

Coords == (0 - CoordBound)..CoordBound

\* the vectors of the tests in lib.rs and utils/mod.rs
EncodeTests ==
    { [v |-> <<10, 7>>, side |-> 15], [v |-> <<14, 14>>, side |-> 15],
      [v |-> <<9, 7>>, side |-> 9], [v |-> <<7, 9>>, side |-> 9] }

EncodeArgs ==
    { [fn |-> "encode", v |-> v, side |-> sd, per |-> per, k1 |-> 0, k2 |-> 0] :
        v \in [1..2 -> Coords] \cup [1..1 -> Coords] \cup [1..3 -> (-1)..MaxSide],
        sd \in 1..MaxSide, per \in BOOLEAN }
    \cup
    { [fn |-> "encode", v |-> t.v, side |-> t.side, per |-> per, k1 |-> 0, k2 |-> 0] :
        t \in EncodeTests, per \in BOOLEAN }

\* getting_parent_works and getting_parent_outside_of_area_fails
ParentTests ==
    { [v |-> <<16, 47>>, side |-> 3, k1 |-> 4], [v |-> <<16, 63>>, side |-> 3, k1 |-> 4] }

ParentArgs ==
    { [fn |-> f, v |-> v, side |-> sd, per |-> FALSE, k1 |-> k1, k2 |-> k2] :
        f \in {"get_parent", "utils_get_parent"},
        v \in [1..2 -> (0 - 2 * CoordBound)..(2 * CoordBound)],
        sd \in {1, MaxSide}, k1 \in 0..MaxShift, k2 \in 0..MaxShift }
    \cup
    { [fn |-> "get_parent", v |-> t.v, side |-> t.side, per |-> FALSE, k1 |-> t.k1, k2 |-> 0] :
        t \in ParentTests }

\* index_prop: x and y in [0, 1), max > 0
IndexArgs ==
    { [fn |-> "sample_to_index", v |-> <<<<x, SampleDen>>, <<y, SampleDen>>>>,
       side |-> sd, per |-> FALSE, k1 |-> 0, k2 |-> 0] :
        x \in 0..(SampleDen - 1), y \in 0..(SampleDen - 1), sd \in 1..MaxSide }

\* each_combination: the three slices of lib.rs, an empty slice, a slice of
\* one, a slice with a repeated value
CombiArgs ==
    { [fn |-> "each_combination", v |-> ch, side |-> d, per |-> FALSE, k1 |-> 0, k2 |-> 0] :
        ch \in { <<-1, 0, 1>>, <<-2, -1, 0, 1, 2>>, <<0, 1>>, <<>>, <<7>>, <<1, 1>> },
        d \in 1..CombiDim }

InitFn ==
    /\ \/ arg \in EncodeArgs
       \/ arg \in ParentArgs
       \/ arg \in IndexArgs
       \/ arg \in CombiArgs
    /\ res = <<>>
    /\ pc = "call"
    /\ dim = Len(arg.v)
    /\ unit = Cell
    /\ grid_side = 1
    /\ periodicity = arg.per
    /\ points = <<>>
    /\ seeds = 0
    /\ grid = <<>>
    /\ indices = <<>>
    /\ level = 0
    /\ range = 0
    /\ throws = 0
    /\ accepted = 0

genVars == <<dim, unit, grid_side, periodicity, points, seeds, grid, indices, level,
             range, throws, accepted>>

\* encode(&v, side, periodicity)
Encode ==
    /\ pc = "call"
    /\ arg.fn = "encode"
    /\ res' = encode(arg.v, arg.side, arg.per)
    /\ pc' = "encoded"
    /\ UNCHANGED <<genVars, arg>>

\* decode(encode(..).unwrap(), side)
Decode ==
    /\ pc = "encoded"
    /\ IsSome(res)
    /\ res' = decode(Unwrap(res), arg.side, Len(arg.v))
    /\ pc' = "decoded"
    /\ UNCHANGED <<genVars, arg>>

\* get_parent(index, k1, side) of lib.rs, or get_parent(index, k1) of utils
GetParent ==
    /\ pc = "call"
    /\ arg.fn \in {"get_parent", "utils_get_parent"}
    /\ res' = IF arg.fn = "get_parent" THEN get_parent(arg.v, arg.k1, arg.side)
              ELSE Some(utils_get_parent(arg.v, arg.k1))
    /\ pc' = "parent"
    /\ UNCHANGED <<genVars, arg>>

\* the same function on the first call's result, with level k2
GetParentAgain ==
    /\ pc = "parent"
    /\ IsSome(res)
    /\ res' = IF arg.fn = "get_parent" THEN get_parent(Unwrap(res), arg.k2, arg.side)
              ELSE Some(utils_get_parent(Unwrap(res), arg.k2))
    /\ pc' = "grandparent"
    /\ UNCHANGED <<genVars, arg>>

\* sample_to_index(&xs, max)
SampleToIndex ==
    /\ pc = "call"
    /\ arg.fn = "sample_to_index"
    /\ res' = sample_to_index(arg.v, arg.side)
    /\ pc' = "index"
    /\ UNCHANGED <<genVars, arg>>

\* index_to_sample(&sample_to_index(&xs, max), max)
IndexToSample ==
    /\ pc = "index"
    /\ res' = index_to_sample(res, arg.side)
    /\ pc' = "sample"
    /\ UNCHANGED <<genVars, arg>>

\* each_combination::<V>(choices), V of dimension arg.side: a new CombiIter
\* with cur = 0; res.out collects what the iterator yields
EachCombination ==
    /\ pc \in {"call", "iter", "iter_end"}
    /\ arg.fn = "each_combination"
    /\ res' = [cur |-> 0, out |-> <<>>]
    /\ pc' = "iter"
    /\ UNCHANGED <<genVars, arg>>

\* CombiIter::next
CombiNext ==
    /\ pc \in {"iter", "iter_end"}
    /\ LET r == CombiIterNext(res.cur, arg.v, arg.side)
       IN IF IsSome(r.item)
          THEN /\ res' = [cur |-> r.cur, out |-> Append(res.out, Unwrap(r.item))]
               /\ pc' = "iter"
          ELSE /\ res' = [res EXCEPT !.cur = r.cur]
               /\ pc' = "iter_end"
    /\ UNCHANGED <<genVars, arg>>

NextFn ==
    \/ Encode \/ Decode \/ GetParent \/ GetParentAgain \/ SampleToIndex \/ IndexToSample
    \/ EachCombination \/ CombiNext

SpecFn == InitFn /\ [][NextFn]_vars

-----------------------------------------------------------------------------
(* Claims *)

Occupied(g) == { t \in DOMAIN g : IsSome(g[t]) }

\* C1 (minimum separation): in every state of generate, every two distinct
\* samples stored in the grid are at squared distance >= (2*radius)^2, the
\* distance taken over the toroidal images in periodic mode.
C1_MinSeparation ==
    \A t1, t2 \in Occupied(grid) :
        t1 # t2 => sqdist(Unwrap(grid[t1]), Unwrap(grid[t2]), periodicity) >= SqRadius

SeedsValid ==
    /\ \A i \in 1..seeds : points[i].sqradius = SqRadius
    /\ \A i, j \in 1..seeds :
         i # j => sqdist(points[i].pos, points[j].pos, periodicity) >= SqRadius

\* C2 (seed extension): when generate is called with a valid sample set S of
\* the same radius, every newly accepted sample is at distance >= 2*radius
\* from every sample of S and from every other newly accepted sample, and the
\* collection generate leaves behind is pairwise separated.
C2_SeedExtension ==
    SeedsValid =>
      /\ \A t \in Occupied(grid) : \A k \in 1..seeds :
           sqdist(points[k].pos, Unwrap(grid[t]), periodicity) >= SqRadius
      /\ \A t1, t2 \in Occupied(grid) :
           t1 # t2 => sqdist(Unwrap(grid[t1]), Unwrap(grid[t2]), periodicity) >= SqRadius
      /\ pc = "done" =>
           \A i, j \in 1..Len(points) :
             i # j => sqdist(points[i].pos, points[j].pos, periodicity) >= SqRadius

\* what is left of a run, ordered lexicographically: done; about to leave the
\* loop; else the levels left, the place in the pass, the throws left
Measure ==
    IF pc = "done" THEN <<0, 0, 0>>
    ELSE IF pc = "loop" /\ ~(indices # <<>> /\ level < LevelBound) THEN <<1, 0, 0>>
    ELSE <<2 + LevelBound - level, IF pc = "loop" THEN 2 ELSE 1, throws>>

LexLess(a, b) ==
    \/ a[1] < b[1]
    \/ a[1] = b[1] /\ a[2] < b[2]
    \/ a[1] = b[1] /\ a[2] = b[2] /\ a[3] < b[3]

\* a step can be taken: the loop test goes one way or the other, a pass that
\* has throws left has a candidate to draw, a finished pass subdivides
CanStep ==
    \/ pc = "loop"
    \/ pc = "throw" /\ throws = 0
    \/ pc = "throw" /\ throws > 0 /\ range > 0 /\ range = Len(indices)

\* C3 (termination): generate terminates (a run that is not over can take a
\* step, and every step strictly decreases Measure, whose components are
\* naturals); the level never exceeds the bound and only increases; each pass
\* of the main loop increments the level or leaves the candidate list empty;
\* the loop ends as soon as the list is empty or the level has reached the
\* bound.
C3_Termination ==
    /\ [](level \in 0..LevelBound /\ throws >= 0)
    /\ [](pc # "done" => CanStep)
    /\ [][LexLess(Measure', Measure)]_vars
    /\ [][level' >= level]_vars
    /\ [][(pc = "throw" /\ pc' = "loop") => (level' = level + 1 \/ indices' = <<>>)]_vars
    /\ [][(pc = "loop" /\ (indices = <<>> \/ level >= LevelBound)) => pc' = "done"]_vars

\* a run that ended at the level bound with candidates left
C3_Witness == pc = "done" /\ level = LevelBound /\ indices # <<>> /\ accepted >= 2

\* the lattice points of the unit hypercube
UnitPoints == [Axes -> 0..(unit - 1)]

\* C4 (maximality on exhaustion): when generate ends with the candidate list
\* empty, every point of the unit hypercube is closer than 2*radius
\* (periodic-aware) to some accepted sample.
C4_MaximalOnExhaustion ==
    (pc = "done" /\ indices = <<>>) =>
      \A x \in UnitPoints :
        \E t \in Occupied(grid) : sqdist(Unwrap(grid[t]), x, periodicity) < SqRadius

\* C5 (single occupancy): a slot that holds a sample keeps it; a store fills
\* exactly one slot that was empty; the occupied slots are as many as the
\* accepted darts, and so are the samples generate appends.
C5_SingleOccupancy ==
    /\ [](Cardinality(Occupied(grid)) = accepted)
    /\ [](pc = "done" => Len(points) = seeds + accepted)
    /\ [][\A t \in DOMAIN grid : IsSome(grid[t]) => grid'[t] = grid[t]]_vars
    /\ [][grid' # grid =>
            /\ accepted' = accepted + 1
            /\ \E t \in DOMAIN grid :
                 /\ grid[t] = None
                 /\ IsSome(grid'[t])
                 /\ \A u \in DOMAIN grid \ {t} : grid'[u] = grid[u]]_vars

\* three slots of a grid of five filled, and the run over
C5_Witness ==
    /\ pc = "done"
    /\ Side = 5
    /\ accepted = 3
    /\ Len(points) = 3

InRange(v, side) == \A n \in DOMAIN v : 0 <= v[n] /\ v[n] < side

\* C6 (coordinate round trip): for c in [0, s)^D, encode(c, s, non-periodic)
\* is an index below s^D that no other coordinate of [0, s)^D encodes to, and
\* decode of it is c.
C6_RoundTrip ==
    (pc \in {"encoded", "decoded"} /\ ~arg.per /\ InRange(arg.v, arg.side)) =>
      /\ pc = "encoded" =>
           /\ IsSome(res)
           /\ Unwrap(res) \in 0..(Pow(arg.side, Len(arg.v)) - 1)
           /\ \A c \in [DOMAIN arg.v -> 0..(arg.side - 1)] :
                encode(c, arg.side, FALSE) = res => c = arg.v
      /\ pc = "decoded" => res = Some(arg.v)

\* encoding_decoding_works of lib.rs, decoded
C6_Witness ==
    /\ pc = "decoded"
    /\ arg.v = <<10, 7>>
    /\ arg.side = 15
    /\ ~arg.per
    /\ res = Some(<<10, 7>>)

\* C7 (out-of-range handling): non-periodic encode returns None exactly when a
\* component is < 0 or >= side; periodic encode never returns None and gives
\* the non-periodic index of the coordinate reduced by the true modulo.
C7_OutOfRange ==
    pc = "encoded" =>
      IF arg.per
      THEN /\ IsSome(res)
           /\ res = encode([n \in DOMAIN arg.v |-> arg.v[n] % arg.side], arg.side, FALSE)
      ELSE (res = None) <=> ~InRange(arg.v, arg.side)

\* a periodic call with a negative and a too large component
C7_Witness ==
    /\ pc = "encoded"
    /\ arg.per
    /\ \E n \in DOMAIN arg.v : arg.v[n] < 0
    /\ \E n \in DOMAIN arg.v : arg.v[n] >= arg.side
    /\ IsSome(res)

\* C8 (parent projection composes): get_parent(c, k) is the component-wise
\* floor of c / 2^k, and get_parent(get_parent(c, k1), k2) = get_parent(c, k1 + k2),
\* negative components included.
C8_ParentComposes ==
    /\ pc = "parent" =>
         /\ IsSome(res)
         /\ \A n \in DOMAIN arg.v :
              /\ Unwrap(res)[n] * Pow(2, arg.k1) <= arg.v[n]
              /\ arg.v[n] < (Unwrap(res)[n] + 1) * Pow(2, arg.k1)
    /\ pc = "grandparent" =>
         /\ IsSome(res)
         /\ \A n \in DOMAIN arg.v :
              /\ Unwrap(res)[n] * Pow(2, arg.k1 + arg.k2) <= arg.v[n]
              /\ arg.v[n] < (Unwrap(res)[n] + 1) * Pow(2, arg.k1 + arg.k2)
         /\ res = IF arg.fn = "get_parent"
                  THEN get_parent(arg.v, arg.k1 + arg.k2, arg.side)
                  ELSE Some(utils_get_parent(arg.v, arg.k1 + arg.k2))

\* two coarsenings of a coordinate with a negative component
C8_Witness ==
    /\ pc = "grandparent"
    /\ arg.fn = "get_parent"
    /\ arg.k1 > 0
    /\ arg.k2 > 0
    /\ \E n \in DOMAIN arg.v : arg.v[n] < 0 /\ arg.v[n] % Pow(2, arg.k1 + arg.k2) # 0

\* C9 (getting the parent outside of the area fails): get_parent returns None
\* whenever floor(index[n] / 2^level) >= top_lvl_side for some axis n.
C9_ParentOutsideFails ==
    (/\ pc = "parent"
     /\ arg.fn = "get_parent"
     /\ \E n \in DOMAIN arg.v : arg.v[n] \div Pow(2, arg.k1) >= arg.side)
      => res = None

\* C10 (sample/index round trip): for xs in [0, 1)^2 and max > 0,
\* index_to_sample(sample_to_index(xs, max), max) equals xs.
C10_SampleRoundTrip ==
    pc = "sample" => \A c \in DOMAIN arg.v : REq(res[c], arg.v[c])

\* the lattice points of the physical extent of cell c at level lvl
CellPoints(c, lvl) ==
    { [n \in Axes |-> c[n] * Spacing(lvl) + o[n]] : o \in [Axes -> 0..(Spacing(lvl) - 1)] }

\* the children 2*i + n of the candidates of the list ind
Made(ind) ==
    { VAdd(Corners[dim][k], VScale(ind[j], 2)) :
        j \in 1..Len(ind), k \in 1..Len(Corners[dim]) }

\* C11 (coverage pruning is sound): whenever subdivide discards a child cell,
\* every point of that cell's extent is at periodic-aware distance < 2*radius
\* from some sample of the grid.
C11_PruningSound ==
    [][level' = level + 1 =>
         \A c \in Made(indices) \ { indices'[j] : j \in DOMAIN indices' } :
           \A x \in CellPoints(c, level + 1) :
             \E t \in Occupied(grid) : sqdist(Unwrap(grid[t]), x, periodicity) < SqRadius]_vars

Elems(s) == { s[i] : i \in DOMAIN s }

\* the grid slot of the top-level parent of candidate c
ParentSlot(c) == Unwrap(encode(GridGetParent(c, level), Side, periodicity))

\* C12 (three outcomes of a throw): a throw either (1) removes one candidate
\* whose parent slot is occupied and leaves the grid alone, or (2) stores a
\* disk-free point of the candidate's cell in its empty parent slot and
\* removes that candidate, or (3) leaves grid and list unchanged, the drawn
\* candidate's slot being empty and its point not disk-free; it never adds a
\* candidate and removes at most one.
C12_ThrowOutcomes ==
    [][(pc = "throw" /\ throws > 0) =>
         LET gone == Elems(indices) \ Elems(indices')
             occupied == /\ grid' = grid
                         /\ Len(indices') = Len(indices) - 1
                         /\ \E c \in gone : IsSome(grid[ParentSlot(c)])
             stored == /\ Len(indices') = Len(indices) - 1
                       /\ \E c \in gone :
                            /\ grid[ParentSlot(c)] = None
                            /\ IsSome(grid'[ParentSlot(c)])
                            /\ Unwrap(grid'[ParentSlot(c)]) \in CellPoints(c, level)
                            /\ is_disk_free(grid, c, level, Unwrap(grid'[ParentSlot(c)]), {})
                            /\ \A u \in DOMAIN grid \ {ParentSlot(c)} : grid'[u] = grid[u]
             rejected == /\ grid' = grid
                         /\ indices' = indices
                         /\ \E c \in Elems(indices) : \E place \in PlaceDraws :
                              /\ grid[ParentSlot(c)] = None
                              /\ LET s == choose_random_sample(c, level, place)
                                 IN ~is_disk_free(grid, c, level, s,
                                                  DiskTies(grid, c, level, s))
         IN /\ Elems(indices') \subseteq Elems(indices)
            /\ Cardinality(gone) <= 1
            /\ Cardinality(Elems(indices')) = Len(indices')
            /\ (occupied /\ ~stored /\ ~rejected)
                 \/ (stored /\ ~occupied /\ ~rejected)
                 \/ (rejected /\ ~occupied /\ ~stored)]_vars

\* a one-dimensional run in which the second pass stored a dart in cell 0 and
\* then removed the other child of cell 0, whose parent slot was occupied
C12_Witness ==
    /\ dim = 1
    /\ unit = 3 * Cell
    /\ ~periodicity
    /\ pc = "throw"
    /\ level = 1
    /\ throws = 0
    /\ Side = 3
    /\ IsSome(grid[0])
    /\ Unwrap(grid[0])[1] < Cell \div 2
    /\ IsSome(grid[1])
    /\ grid[2] = None
    /\ Elems(indices) = { <<4>>, <<5>> }

\* how often x occurs in the list s
Occ(s, x) == Cardinality({ k \in DOMAIN s : s[k] = x })

\* the candidate coordinates of level lvl
LevelCoords(lvl) == [Axes -> 0..(Side * Pow(2, lvl) - 1)]

\* C13 (subdivision result): subdivide at level k leaves the grid alone, and
\* the new list holds each coordinate c of level k + 1 as often as there are
\* prior candidates i and offsets n in {0,1}^D with c = 2*i + n if c is not
\* covered, and not at all if it is.
C13_SubdivisionResult ==
    [][level' = level + 1 =>
         /\ grid' = grid
         /\ Elems(indices') \subseteq LevelCoords(level + 1)
         /\ \E lt \in SUBSET SubdivideTies(grid, indices, level) :
            \A c \in LevelCoords(level + 1) :
              LET made == Cardinality({ jn \in (DOMAIN indices) \X [Axes -> {0, 1}] :
                                          VAdd(VScale(indices[jn[1]], 2), jn[2]) = c })
              IN Occ(indices', c) =
                   IF made = 0 \/ covered(grid, c, level + 1, lt) THEN 0 ELSE made]_vars

\* a two-dimensional list just subdivided for the second time, some children
\* kept and some discarded
C13_Witness ==
    /\ pc = "loop"
    /\ dim = 2
    /\ level = 2
    /\ accepted >= 1
    /\ indices # <<>>
    /\ Len(indices) % 4 # 0

\* C14 (each_combination): the iterator yields, as its k-th vector (k from
\* 0), the one whose component n is choices[(k div L^n) mod L]; it ends after
\* exactly L^D vectors, so with distinct choices every D-vector over the
\* choices came exactly once and with an empty slice nothing came; a new call
\* starts from k = 0.
C14_EachCombination ==
    pc \in {"iter", "iter_end"} =>
      LET L == Len(arg.v)
          D == arg.side
          out == res.out
      IN /\ res.cur = Len(out)
         /\ Len(out) <= Pow(L, D)
         /\ \A k \in 0..(Len(out) - 1) :
              /\ DOMAIN out[k + 1] = 1..D
              /\ \A n \in 1..D : out[k + 1][n] = arg.v[((k \div Pow(L, n - 1)) % L) + 1]
         /\ pc = "iter_end" =>
              /\ Len(out) = Pow(L, D)
              /\ Cardinality(Elems(arg.v)) = L =>
                   \A v \in [1..D -> Elems(arg.v)] : Occ(out, v) = 1
         /\ L = 0 => out = <<>>

\* the 5^2 ring offsets of a two-dimensional run, all yielded
C14_Witness ==
    /\ pc = "iter_end"
    /\ arg.fn = "each_combination"
    /\ arg.v = <<-2, -1, 0, 1, 2>>
    /\ arg.side = 2
    /\ Len(res.out) = 25
    /\ res.out[25] = <<2, 2>>

\* C15 (no failing step inside generate): every candidate of level k has all
\* components in [0, side * 2^k), its parent coordinate lies in [0, side)^D
\* and resolves to a slot of the grid; while a pass has throws left the list
\* is not empty and the index range is the list's length.
C15_NoFailingStep ==
    /\ Elems(indices) \subseteq LevelCoords(level)
    /\ \A c \in Elems(indices) :
         LET parent == GridGetParent(c, level)
         IN /\ InRange(parent, Side)
            /\ IsSome(GridGet(grid, parent))
            /\ Unwrap(encode(parent, Side, periodicity)) \in DOMAIN grid
    /\ DOMAIN grid = 0..(Pow(Side, dim) - 1)
    /\ (pc = "throw" /\ throws > 0) =>
         /\ indices # <<>>
         /\ range = Len(indices)
    /\ (pc = "throw" /\ throws = 0) => indices # <<>>

\* a two-dimensional pass whose only candidate was resolved to its slot,
\* stored and removed by the pass's only throw: the pass returned at once,
\* without counting the throw down, and the loop is about to end
C15_Witness ==
    /\ pc = "loop"
    /\ dim = 2
    /\ indices = <<>>
    /\ range = 1
    /\ throws = 1
    /\ accepted = 1
    /\ IsSome(grid[0])

=============================================================================
